---- MODULE Spec2Model ----
(***************************************************************************)
(* SherrorClient (polyseam/sherror): the constructor, the synchronization  *)
(* of the error definitions of a config with GitHub Discussions (sync),    *)
(* the bulk deletion of a category (clear), the rewrite of the config      *)
(* artifact on disk (writebackConfig) and the lookup of an error (get)     *)
(* with its print.                                                         *)
(*                                                                         *)
(* Strings are numbers: titles and bodies are 1, 2, ...; NotAString is a   *)
(* value whose typeof is not "string".  An app_message is a sequence of    *)
(* tags and text.  A discussion's opaque id is its number; a category's    *)
(* id is CatId(name).  A property that is undefined is a field the record  *)
(* lacks.  A remote call that fails has no effect on the platform.  One    *)
(* step of a run is the response of the call it awaits followed by the     *)
(* synchronous code up to the next await.                                  *)
(*                                                                         *)
(* Spec: a caller that awaits each run (sync, clear, writebackConfig).     *)
(* SpecAccessor: the same caller, which also calls get and print.          *)
(* SpecConcurrent: sync runs of a caller that may not await them.          *)
(***************************************************************************)
EXTENDS Integers, Sequences, FiniteSets, TLC

\* ---------------------------------------------------------------- bounds
MaxErrs == 2
MaxRuns == 2

\* ------------------------------------------------------------- constants
CategoryPageSize == 10
DiscussionPageSize == 100
NotAString == 0
NaN == 0

Runs == {1, 2}
Titles == {1, 2}
RepoOwner == "polyseam"
RepoName == "sherror"
RepoNodeId == "R_sherror"
ConfigCategory == "sherror-example"
OtherCategory == "General"
MissingCategory == "sherror-errors"

\* ------------------------------------------------------------ pure parts
Range(s) == {s[i] : i \in 1..Len(s)}

Last(s) == s[Len(s)]

Min(a, b) == IF a < b THEN a ELSE b

First(s, n) == SubSeq(s, 1, Min(Len(s), n))

\* _discussion_link values: absent (undefined), the empty string, a string
\* URL cannot parse, or a URL whose path is a sequence of segments (0: not a
\* number).
NoLink == [kind |-> "absent", path |-> <<>>]
EmptyLink == [kind |-> "empty", path |-> <<>>]
InvalidLink == [kind |-> "invalid", path |-> <<>>]
DiscussionUrl(n) == [kind |-> "url", path |-> <<0, n>>]
TrailingSlashUrl == [kind |-> "url", path |-> <<0, NaN>>]
Truthy(link) == link.kind \notin {"absent", "empty"}

IsString(v) == v # NotAString

CatId(name) == <<"DIC", name>>

\* the styling tags and the escape sequences they stand for
AnsiOf ==
  [t \in {"<red>", "</red>", "<blue>", "</blue>"} |->
     IF t = "<red>" THEN "ESC[31m" ELSE IF t = "<blue>" THEN "ESC[34m" ELSE "ESC[0m"]

\* colorize(str): each tag is replaced by its escape sequence
colorize(str) ==
  [k \in 1..Len(str) |-> IF str[k] \in DOMAIN AnsiOf THEN AnsiOf[str[k]] ELSE str[k]]

\* codepath?.toString(): undefined without a codepath
NoCodepath == <<>>
CodepathToString(codepath) ==
  IF codepath = NoCodepath THEN NoCodepath
  ELSE <<codepath.file, ":", ToString(codepath.line)>>

\* variant: the number is parsed from the first segment of the path
parseDiscussionNumber_FirstSegment(link) ==
  IF link.kind = "invalid" THEN [threw |-> TRUE, num |-> NaN]
  ELSE IF Len(link.path) = 0 THEN [threw |-> FALSE, num |-> NaN]
  ELSE [threw |-> FALSE, num |-> link.path[1]]

\* new URL(link), then parseInt of the last segment of its pathname
parseDiscussionNumber(link) ==
  IF link.kind = "invalid" THEN [threw |-> TRUE, num |-> NaN]
  ELSE IF Len(link.path) = 0 THEN [threw |-> FALSE, num |-> NaN]
  ELSE [threw |-> FALSE, num |-> link.path[Len(link.path)]]

\* git remote URLs: the form decides the parse
GitRemotes ==
  { [form |-> "ssh", owner |-> RepoOwner, repo |-> RepoName],
    [form |-> "https", owner |-> RepoOwner, repo |-> RepoName],
    [form |-> "https", owner |-> RepoOwner, repo |-> ""],
    [form |-> "ssh", owner |-> "elsewhere", repo |-> RepoName],
    [form |-> "other", owner |-> "", repo |-> ""] }

parseGitRemote(remote) ==
  IF remote.form \notin {"ssh", "https"} THEN [threw |-> TRUE, owner |-> "", repo |-> ""]
  ELSE IF remote.owner = "" \/ remote.repo = "" THEN [threw |-> TRUE, owner |-> "", repo |-> ""]
  ELSE [threw |-> FALSE, owner |-> remote.owner, repo |-> remote.repo]

NoError == [kind |-> "none", at |-> 0, listed |-> <<>>]
Failure(kind, at) == [kind |-> kind, at |-> at, listed |-> <<>>]

\* a call of a run: its kind, the error index and the discussion number it is
\* for, whether it succeeded, and the title and body a lookup returned
Call(kind, at, num, ok, title, body) ==
  [kind |-> kind, at |-> at, num |-> num, ok |-> ok, title |-> title, body |-> body]

\* ------------------------------------------------------- config artifact
FieldOrder == <<"error_code", "app_message", "post_title", "post_body">>

\* the text of an object literal: its fields in order, and their values
ElementText(fields, error) ==
  [ fields |-> fields,
    error_code |-> error.error_code,
    app_message |-> error.app_message,
    post_title |-> error.post_title,
    post_body |-> error.post_body,
    _discussion_link |-> IF "_discussion_link" \in Range(fields)
                         THEN error._discussion_link ELSE NoLink ]

\* the object literal a developer writes for one error
SourceText(error) ==
  ElementText(IF error._discussion_link # NoLink
              THEN Append(FieldOrder, "_discussion_link") ELSE FieldOrder, error)

\* variant: the link field is emitted whatever its value
ObjText_AlwaysLink(error) ==
  ElementText(Append(FieldOrder, "_discussion_link"), error)

\* the object literal writebackConfig emits for one error
ObjText(error) ==
  ElementText(IF Truthy(error._discussion_link)
              THEN Append(FieldOrder, "_discussion_link") ELSE FieldOrder, error)

\* what importing the artifact gives for one element
ParseElement(text) ==
  [ error_code |-> text.error_code,
    app_message |-> text.app_message,
    post_title |-> text.post_title,
    post_body |-> text.post_body,
    _discussion_link |-> IF "_discussion_link" \in Range(text.fields)
                         THEN text._discussion_link ELSE NoLink ]

\* the properties the exported object lacks: reading one gives undefined
Undefined(file) ==
  (IF file.nameProp = "missing" THEN {"category_name"} ELSE {})
  \cup (IF file.errorsProp = "missing" THEN {"errors"} ELSE {})

\* what importing the artifact gives: a record without the undefined properties
ParseArtifact(file) ==
  LET full == [ category_name |-> file.category_name,
                errors |-> [i \in 1..Len(file.elements) |->
                              ParseElement(file.elements[i])],
                printer |-> file.printer ]
  IN [f \in (DOMAIN full) \ Undefined(file) |-> full[f]]

\* exportName: the name the config is exported under;
\* init: the kind of its initializer (an object literal, one under satisfies,
\* or another expression); errorsProp: the kind of its errors property (an
\* array literal, a shorthand, a reference to an array, or none)
StructuralError(file) ==
  IF file.exportName \notin {"default", "config"} THEN "NoExport"
  ELSE IF file.init \notin {"object", "satisfies"} THEN "NotObjectLiteral"
  ELSE IF file.errorsProp \in {"missing", "shorthand"} THEN "NoErrorsProperty"
  ELSE IF file.errorsProp # "array" THEN "NotArrayLiteral"
  ELSE "none"

\* variant: the append adds every error, not those past the elements
RewriteElements_AppendsAll(elements, errors) ==
  [i \in 1..Len(elements) |->
     IF i <= Len(errors) THEN ObjText(errors[i]) ELSE elements[i]]
  \o (IF Len(errors) > Len(elements)
      THEN [i \in 1..Len(errors) |-> ObjText(errors[i])] ELSE <<>>)

\* variant: the array is rewritten as the errors, its other elements dropped
RewriteElements_Truncates(elements, errors) ==
  [i \in 1..Len(errors) |-> ObjText(errors[i])]

\* the elements after the element-wise replace and the append
RewriteElements(elements, errors) ==
  [i \in 1..(IF Len(errors) > Len(elements) THEN Len(errors) ELSE Len(elements)) |->
     IF i <= Len(errors) THEN ObjText(errors[i]) ELSE elements[i]]

\* variant: the file is saved before the errors property is looked at
writebackResult_SavesFirst(c, file) ==
  IF StructuralError(file) \in {"NoExport", "NotObjectLiteral"}
  THEN [err |-> Failure(StructuralError(file), 0), file |-> file]
  ELSE [err |-> IF StructuralError(file) = "none" THEN NoError
                ELSE Failure(StructuralError(file), 0),
        file |-> [file EXCEPT !.elements = RewriteElements(file.elements, c.errors)]]

\* the artifact after writebackConfig, and what it threw
writebackResult(c, file) ==
  IF StructuralError(file) # "none"
  THEN [err |-> Failure(StructuralError(file), 0), file |-> file]
  ELSE [err |-> NoError,
        file |-> [file EXCEPT !.elements = RewriteElements(file.elements, c.errors)]]

\* ------------------------------------------------------- remote platform
\* discussions[n] is discussion number n; numbers are never reused
Discussion(title, body, cat) == [live |-> TRUE, title |-> title, body |-> body, cat |-> cat]

LiveNumbers(ds) == {n \in 1..Len(ds) : ds[n].live}

\* repository(owner, name) { id discussionCategories(first: 10) }
repositoryInfo(categories, owner, repo) ==
  IF owner = RepoOwner /\ repo = RepoName
  THEN [found |-> TRUE, id |-> RepoNodeId, nodes |-> First(categories, CategoryPageSize)]
  ELSE [found |-> FALSE, id |-> "", nodes |-> <<>>]

\* variant: a name no category has resolves to the first category
FindCategory_OrFirst(nodes, name) ==
  IF \E i \in 1..Len(nodes) : nodes[i].name = name
  THEN LET i == CHOOSE j \in 1..Len(nodes) :
                  /\ nodes[j].name = name
                  /\ \A k \in 1..(j - 1) : nodes[k].name # name
       IN [found |-> TRUE, id |-> nodes[i].id]
  ELSE [found |-> nodes # <<>>, id |-> IF nodes # <<>> THEN nodes[1].id ELSE <<>>]

\* nodes.find((cat) => cat.name === category_name)
FindCategory(nodes, name) ==
  IF \E i \in 1..Len(nodes) : nodes[i].name = name
  THEN LET i == CHOOSE j \in 1..Len(nodes) :
                  /\ nodes[j].name = name
                  /\ \A k \in 1..(j - 1) : nodes[k].name # name
       IN [found |-> TRUE, id |-> nodes[i].id]
  ELSE [found |-> FALSE, id |-> <<>>]

CategoryNames(nodes) == [i \in 1..Len(nodes) |-> nodes[i].name]

RECURSIVE Ascending(_)
Ascending(S) ==
  IF S = {} THEN <<>>
  ELSE LET m == CHOOSE x \in S : \A y \in S : x <= y
       IN <<m>> \o Ascending(S \ {m})

\* variant: the list query is not restricted to the category
discussionsInCategory_Any(ds, cat) ==
  First(Ascending(LiveNumbers(ds)), DiscussionPageSize)

\* discussions(first: 100, categoryId)
discussionsInCategory(ds, cat) ==
  First(Ascending({n \in LiveNumbers(ds) : ds[n].cat = cat}), DiscussionPageSize)

\* variant: the update sends the title and leaves the body as fetched
UpdateVariables_TitleOnly(disc, num, e) ==
  [id |-> num, title |-> e.post_title, body |-> disc.body]

\* the variables of the UpdateDiscussion mutation
UpdateVariables(disc, num, e) ==
  [id |-> num, title |-> e.post_title, body |-> e.post_body]

\* the variables of the CreateDiscussion mutation
CreateVariables(c, e) ==
  [repoId |-> c.repoId, catId |-> c.categoryId, title |-> e.post_title,
   body |-> e.post_body]

\* variant: the update is sent without a comparison
NeedsUpdate_Always(disc, e) == TRUE

\* variant: the comparison looks at the title alone
NeedsUpdate_TitleOnly(disc, e) == disc.title # e.post_title

\* disc.title !== err.post_title || disc.body !== err.post_body
NeedsUpdate(disc, e) == disc.title # e.post_title \/ disc.body # e.post_body

\* ----------------------------------------------------------------- state
VARIABLES
  cfg,          \* the config object, this.sherrorConfig once constructed
  disk,         \* sherror.config.ts
  categories,   \* the repository's discussion categories
  discussions,  \* the repository's discussions, by number
  op,           \* per run: the method running: sync, clear or writebackConfig
  pc,           \* per run: the call it awaits, or idle / done / failed
  idx,          \* per run: index (1-based) of sync's loop
  updated,      \* per run: the local updated
  ctx,          \* per run: owner, repo, repoId, categoryId, num
  todo,         \* per run: the discussions clear has still to delete
  err,          \* per run: what the run threw (and printed)
  log,          \* per run: the calls of the run that have returned, in order
  snap,         \* per run: cfg, discussions and disk when the run started
  runsLeft,     \* runs the caller may still start
  createdFor,   \* per error index: the discussions sync created for it
  cleared,      \* a clear() has been started
  wrote,        \* the last writeback that saved: its errors and the file
  prior,        \* the run that returned last to this client: its method,
                \* its outcome and whether it threw on a deletion
  ghToken,      \* GITHUB_TOKEN in the environment (.env included)
  client,       \* whether new SherrorClient(cfg) was evaluated, and its error
  awaited,      \* the caller awaits each run before it starts the next
  handle,       \* what the last get(code) returned, or threw
  printed       \* the printer invocations of the last print()

clientVars == <<ghToken, client, awaited>>
handleVars == <<handle, printed>>

vars == <<cfg, disk, categories, discussions, op, pc, idx, updated, ctx, todo, err,
          log, snap, runsLeft, createdFor, cleared, wrote, prior, clientVars,
          handleVars>>

NoCtx == [owner |-> "", repo |-> "", repoId |-> "", categoryId |-> <<>>, num |-> NaN]
NoSnap == [cfg |-> <<>>, discussions |-> <<>>, disk |-> <<>>]
NoWrite == [saved |-> FALSE, errors |-> <<>>, file |-> <<>>, repeat |-> FALSE]
NoPrior == [op |-> "none", pc |-> "idle", deleting |-> FALSE]
NoHandle == [status |-> "none"]
NoPrint ==
  [called |-> FALSE, codepath |-> NoCodepath, def |-> <<>>, invocations |-> <<>>]

NotMade == [made |-> "no", err |-> "none"]
Ready == [made |-> "yes", err |-> "none"]
Refused(e) == [made |-> "refused", err |-> e]

Idle(r) == pc[r] = "idle"
Ended(r) == pc[r] \in {"done", "failed"}

\* a call takes the lowest free slot; a caller that awaits its runs starts
\* one when none is under way
CanStart(r) ==
  /\ client = Ready
  /\ runsLeft > 0
  /\ Idle(r)
  /\ awaited => \A q \in Runs : Idle(q)
  /\ \A q \in Runs : Idle(q) => q >= r

\* ------------------------------------------------------------------ Init
Category(name) == [id |-> CatId(name), name |-> name]

FewCategories == <<Category(OtherCategory), Category(ConfigCategory)>>

\* more categories than one page of the lookup holds, the configured one last
ManyCategories ==
  [i \in 1..CategoryPageSize |->
     Category(<<"Announcements", OtherCategory, "Ideas", "Polls", "Q&A",
                "Show and tell", "Bugs", "Releases", "Docs", "Random">>[i])]
  \o <<Category(ConfigCategory)>>

NoDiscussions == <<>>

SomeDiscussions ==
  <<Discussion(1, 1, CatId(ConfigCategory)),
    Discussion(1, 2, CatId(ConfigCategory)),
    Discussion(2, 1, CatId(OtherCategory))>>

\* the configured category holds nothing: its discussion was deleted by hand
DeletedDiscussions ==
  <<[Discussion(1, 1, CatId(ConfigCategory)) EXCEPT !.live = FALSE],
    Discussion(2, 1, CatId(OtherCategory))>>

InitDiscussions == {NoDiscussions, SomeDiscussions, DeletedDiscussions}

\* an app_message: a sequence of tags and text, as in the example config
Message(i) == <<"<red>", ToString(i), "<blue>", "--foo", "</blue>", "</red>">>

\* error i may carry the link of discussion i, when the platform has one
InitEntries(i, ds) ==
  { [error_code |-> i, app_message |-> Message(i), post_title |-> t, post_body |-> 1,
     _discussion_link |-> l] :
      t \in Titles \cup {NotAString},
      l \in {NoLink} \cup {DiscussionUrl(n) : n \in {i} \cap (1..Len(ds))} }

InitErrors(ds) ==
  UNION { { s \in [1..n -> UNION {InitEntries(i, ds) : i \in 1..n}] :
              \A i \in 1..n : s[i] \in InitEntries(i, ds) } : n \in 0..MaxErrs }

GoodShape ==
  [exportName |-> "config", init |-> "satisfies", errorsProp |-> "array",
   nameProp |-> "string", printer |-> "function"]

ArtifactShapes ==
  { GoodShape,
    [GoodShape EXCEPT !.exportName = "default", !.init = "object"],
    [GoodShape EXCEPT !.exportName = "settings", !.init = "object"],
    [GoodShape EXCEPT !.init = "call"],
    [GoodShape EXCEPT !.errorsProp = "shorthand"],
    [GoodShape EXCEPT !.errorsProp = "reference"] }

\* exports that lack a required property
PartialShapes ==
  { [GoodShape EXCEPT !.errorsProp = "missing"],
    [GoodShape EXCEPT !.nameProp = "missing"],
    [GoodShape EXCEPT !.errorsProp = "missing", !.nameProp = "missing"] }

Artifact(shape, name, errors) ==
  [ exportName |-> shape.exportName, init |-> shape.init,
    errorsProp |-> shape.errorsProp, nameProp |-> shape.nameProp,
    printer |-> shape.printer, category_name |-> name,
    elements |-> [i \in 1..Len(errors) |-> SourceText(errors[i])] ]

\* the usual setting: the artifact is the example's, the client is given what
\* it exports, the token is set
Default ==
  [shape |-> GoodShape, name |-> ConfigCategory, cats |-> FewCategories,
   token |-> "set", file |-> "same", codes |-> "distinct", links |-> "asis",
   bodies |-> "asis"]

\* settings that differ from the usual one in one respect (or, with many
\* categories, also in the name)
Variants ==
  {[Default EXCEPT !.shape = sh] : sh \in ArtifactShapes \cup PartialShapes}
  \cup {[Default EXCEPT !.name = n] : n \in {MissingCategory, ""}}
  \cup {[Default EXCEPT !.cats = ManyCategories, !.name = n] :
          n \in {ConfigCategory, MissingCategory}}
  \cup {[Default EXCEPT !.token = t] : t \in {"unset", "empty"}}
  \cup {[Default EXCEPT !.file = f] : f \in {"shorter", "longer"}}
  \cup {[Default EXCEPT !.links = l] : l \in {"empty", "invalid", "trailing"}}
  \cup {[Default EXCEPT !.bodies = "missing"]}

\* errors of full length with string titles, on a platform with discussions
Plain(errors, ds) ==
  /\ Len(errors) = MaxErrs
  /\ \A i \in 1..Len(errors) : errors[i].post_title = 1
  /\ ds = SomeDiscussions

\* the first link of the setting: as it is, "", a string that is no URL, or a
\* URL whose path ends with a slash
FirstLink(link, v) ==
  IF v.links = "empty" THEN EmptyLink
  ELSE IF v.links = "invalid" THEN InvalidLink
  ELSE IF v.links = "trailing" THEN TrailingSlashUrl
  ELSE link

\* the errors of the setting: with one code for all, with another first link,
\* without a body for the last
Vary(errors, v) ==
  [i \in 1..Len(errors) |->
     [errors[i] EXCEPT
        !.error_code = IF v.codes = "same" THEN 1 ELSE @,
        !._discussion_link = IF i = 1 THEN FirstLink(@, v) ELSE @,
        !.post_body = IF v.bodies = "missing" /\ i = Len(errors)
                      THEN NotAString ELSE @]]

\* the errors of the artifact: those of the config, or one less, or one more
FileErrors(errors, v) ==
  IF v.file = "shorter" THEN SubSeq(errors, 1, Len(errors) - 1)
  ELSE IF v.file = "longer"
  THEN Append(errors, [error_code |-> Len(errors) + 1,
                       app_message |-> Message(Len(errors) + 1), post_title |-> 1,
                       post_body |-> 1, _discussion_link |-> NoLink])
  ELSE errors

\* the state before new SherrorClient(config)
Setup(errors, ds, v, aw) ==
  /\ disk = Artifact(v.shape, v.name, FileErrors(errors, v))
  /\ cfg = ParseArtifact(Artifact(v.shape, v.name, errors))
  /\ categories = v.cats
  /\ discussions = ds
  /\ op = [r \in Runs |-> "none"]
  /\ pc = [r \in Runs |-> "idle"]
  /\ idx = [r \in Runs |-> 0]
  /\ updated = [r \in Runs |-> FALSE]
  /\ ctx = [r \in Runs |-> NoCtx]
  /\ todo = [r \in Runs |-> <<>>]
  /\ err = [r \in Runs |-> NoError]
  /\ log = [r \in Runs |-> <<>>]
  /\ snap = [r \in Runs |-> NoSnap]
  /\ runsLeft = MaxRuns
  /\ createdFor = [i \in 1..(MaxErrs + 1) |-> {}]
  /\ cleared = FALSE
  /\ wrote = NoWrite
  /\ prior = NoPrior
  /\ ghToken = v.token
  /\ client = NotMade
  /\ awaited = aw
  /\ handle = NoHandle
  /\ printed = NoPrint

Init ==
  \E ds \in InitDiscussions :
  \E errors \in InitErrors(ds), v \in Variants :
    /\ (v # Default) => Plain(errors, ds)
    /\ Setup(Vary(errors, v), ds, v, TRUE)

\* ----------------------------------------------------------- constructor
\* !this.ghToken; !config.category_name || !config.errors
constructor(token, config) ==
  IF token \in {"unset", "empty"} THEN Refused("NoToken")
  ELSE IF \/ "category_name" \notin DOMAIN config
          \/ config.category_name = ""
          \/ "errors" \notin DOMAIN config
  THEN Refused("InvalidConfig")
  ELSE Ready

Construct ==
  /\ client = NotMade
  /\ client' = constructor(ghToken, cfg)
  /\ UNCHANGED <<cfg, disk, categories, discussions, op, pc, idx, updated, ctx,
                 todo, err, log, snap, runsLeft, createdFor, cleared, wrote,
                 prior, ghToken, awaited, handleVars>>

\* ------------------------------------------------------------------ sync
\* variant: the loop ends the run without looking at updated
SyncLoopHead_ForgetsUpdated(c, i, upd) ==
  IF i > Len(c.errors)
  THEN [pc |-> "done", err |-> NoError, num |-> NaN]
  ELSE LET e == c.errors[i] IN
    IF ~IsString(e.post_title) \/ ~IsString(e.post_body)
    THEN [pc |-> "failed", err |-> Failure("Validation", i), num |-> NaN]
    ELSE IF Truthy(e._discussion_link)
    THEN IF parseDiscussionNumber(e._discussion_link).threw
         THEN [pc |-> "failed", err |-> Failure("InvalidLink", i), num |-> NaN]
         ELSE [pc |-> "s_getDiscussion", err |-> NoError,
               num |-> parseDiscussionNumber(e._discussion_link).num]
    ELSE [pc |-> "s_createDiscussion", err |-> NoError, num |-> NaN]

\* variant: the validation looks at the title alone
SyncLoopHead_TitleOnly(c, i, upd) ==
  IF i > Len(c.errors)
  THEN [pc |-> IF upd THEN "s_writeback" ELSE "done", err |-> NoError, num |-> NaN]
  ELSE LET e == c.errors[i] IN
    IF ~IsString(e.post_title)
    THEN [pc |-> "failed", err |-> Failure("Validation", i), num |-> NaN]
    ELSE IF Truthy(e._discussion_link)
    THEN IF parseDiscussionNumber(e._discussion_link).threw
         THEN [pc |-> "failed", err |-> Failure("InvalidLink", i), num |-> NaN]
         ELSE [pc |-> "s_getDiscussion", err |-> NoError,
               num |-> parseDiscussionNumber(e._discussion_link).num]
    ELSE [pc |-> "s_createDiscussion", err |-> NoError, num |-> NaN]

\* the synchronous code of sync from the top of the loop at index i to the
\* next await: where the run waits next, and what it threw
SyncLoopHead(c, i, upd) ==
  IF i > Len(c.errors)
  THEN [pc |-> IF upd THEN "s_writeback" ELSE "done", err |-> NoError, num |-> NaN]
  ELSE LET e == c.errors[i] IN
    IF ~IsString(e.post_title) \/ ~IsString(e.post_body)
    THEN [pc |-> "failed", err |-> Failure("Validation", i), num |-> NaN]
    ELSE IF Truthy(e._discussion_link)
    THEN IF parseDiscussionNumber(e._discussion_link).threw
         THEN [pc |-> "failed", err |-> Failure("InvalidLink", i), num |-> NaN]
         ELSE [pc |-> "s_getDiscussion", err |-> NoError,
               num |-> parseDiscussionNumber(e._discussion_link).num]
    ELSE [pc |-> "s_createDiscussion", err |-> NoError, num |-> NaN]

\* run r goes on from the top of the loop at index i
SyncGoto(r, c, i, upd) ==
  LET nxt == SyncLoopHead(c, i, upd) IN
  /\ pc' = [pc EXCEPT ![r] = nxt.pc]
  /\ err' = [err EXCEPT ![r] = nxt.err]
  /\ idx' = [idx EXCEPT ![r] = i]
  /\ updated' = [updated EXCEPT ![r] = upd]
  /\ ctx' = [ctx EXCEPT ![r].num = nxt.num]

\* variant: a failed call is issued again instead of ending the run
Throw_Retry(r, e) == UNCHANGED <<pc, err>>

\* run r throws
Throw(r, e) ==
  /\ pc' = [pc EXCEPT ![r] = "failed"]
  /\ err' = [err EXCEPT ![r] = e]

Logged(r, call) == log' = [log EXCEPT ![r] = Append(@, call)]

\* writebackConfig of run r: the rewrite of the source file and project.save()
Save(r) ==
  LET res == writebackResult(cfg, disk) IN
  /\ disk' = res.file
  /\ Logged(r, Call("writeback", 0, 0, res.err = NoError, 0, 0))
  /\ pc' = [pc EXCEPT ![r] = IF res.err = NoError THEN "done" ELSE "failed"]
  /\ err' = [err EXCEPT ![r] = res.err]
  /\ wrote' = IF res.err = NoError
              THEN [saved |-> TRUE, errors |-> cfg.errors, file |-> res.file,
                    repeat |-> wrote.saved /\ wrote.errors = cfg.errors]
              ELSE wrote
  /\ UNCHANGED <<op, cfg, categories, discussions, idx, updated, ctx, todo, snap,
                 runsLeft, createdFor, cleared, prior, clientVars, handleVars>>

SyncStart(r) ==
  /\ CanStart(r)
  /\ runsLeft' = runsLeft - 1
  /\ op' = [op EXCEPT ![r] = "sync"]
  /\ snap' = [snap EXCEPT ![r] = [cfg |-> cfg, discussions |-> discussions,
                                   disk |-> disk]]
  /\ log' = [log EXCEPT ![r] = <<>>]
  /\ IF cfg.category_name = ""
     THEN Throw(r, Failure("InvalidConfig", 0))
     ELSE /\ pc' = [pc EXCEPT ![r] = "s_gitRemote"]
          /\ err' = [err EXCEPT ![r] = NoError]
  /\ UNCHANGED <<cfg, disk, categories, discussions, idx, updated, ctx, todo,
                 createdFor, cleared>>
  /\ UNCHANGED <<wrote, prior, clientVars, handleVars>>

\* variant: the loop starts once the remote is parsed, without the lookup
SyncGitRemote_SkipsLookup(r) ==
  /\ pc[r] = "s_gitRemote"
  /\ \E remote \in GitRemotes :
       LET p == parseGitRemote(remote)
           nxt == SyncLoopHead(cfg, 1, FALSE)
       IN
       IF p.threw
       THEN /\ Throw(r, Failure("Configuration", 0))
            /\ UNCHANGED <<idx, updated, ctx>>
       ELSE /\ pc' = [pc EXCEPT ![r] = nxt.pc]
            /\ err' = [err EXCEPT ![r] = nxt.err]
            /\ idx' = [idx EXCEPT ![r] = 1]
            /\ updated' = [updated EXCEPT ![r] = FALSE]
            /\ ctx' = [ctx EXCEPT ![r].owner = p.owner, ![r].repo = p.repo,
                                  ![r].num = nxt.num]
  /\ UNCHANGED <<op, cfg, disk, categories, discussions, todo, log,
                 snap, runsLeft, createdFor, cleared>>
  /\ UNCHANGED <<wrote, prior, clientVars, handleVars>>

SyncGitRemote(r) ==
  /\ pc[r] = "s_gitRemote"
  /\ \E remote \in GitRemotes :
       LET p == parseGitRemote(remote) IN
       IF p.threw
       THEN /\ Throw(r, Failure("Configuration", 0))
            /\ UNCHANGED ctx
       ELSE /\ pc' = [pc EXCEPT ![r] = "s_repositoryInfo"]
            /\ ctx' = [ctx EXCEPT ![r].owner = p.owner, ![r].repo = p.repo]
            /\ UNCHANGED err
  /\ UNCHANGED <<op, cfg, disk, categories, discussions, idx, updated, todo, log,
                 snap, runsLeft, createdFor, cleared>>
  /\ UNCHANGED <<wrote, prior, clientVars, handleVars>>

SyncRepositoryInfo(r) ==
  /\ pc[r] = "s_repositoryInfo"
  /\ \E ok \in BOOLEAN :
       LET repository == repositoryInfo(categories, ctx[r].owner, ctx[r].repo)
           category == FindCategory(repository.nodes, cfg.category_name)
       IN
       /\ Logged(r, Call("repositoryInfo", 0, 0, ok, 0, 0))
       /\ IF ~ok
          THEN Throw(r, Failure("RemoteProtocol", 0)) /\ UNCHANGED <<idx, updated, ctx>>
          ELSE IF ~repository.found
          THEN Throw(r, Failure("RepositoryNotFound", 0)) /\ UNCHANGED <<idx, updated, ctx>>
          ELSE IF ~category.found
          THEN /\ Throw(r, [kind |-> "CategoryNotFound", at |-> 0,
                            listed |-> CategoryNames(repository.nodes)])
               /\ UNCHANGED <<idx, updated, ctx>>
          ELSE LET nxt == SyncLoopHead(cfg, 1, FALSE) IN
               /\ pc' = [pc EXCEPT ![r] = nxt.pc]
               /\ err' = [err EXCEPT ![r] = nxt.err]
               /\ idx' = [idx EXCEPT ![r] = 1]
               /\ updated' = [updated EXCEPT ![r] = FALSE]
               /\ ctx' = [ctx EXCEPT ![r].repoId = repository.id,
                                     ![r].categoryId = category.id,
                                     ![r].num = nxt.num]
  /\ UNCHANGED <<op, cfg, disk, categories, discussions, todo, snap, runsLeft,
                 createdFor, cleared>>
  /\ UNCHANGED <<wrote, prior, clientVars, handleVars>>

\* variant: a discussion that is not found is created anew
SyncGetDiscussion_Recreates(r) ==
  /\ pc[r] = "s_getDiscussion"
  /\ \E ok \in BOOLEAN :
       LET num == ctx[r].num
           e == cfg.errors[idx[r]]
       IN
       IF ~ok \/ num = NaN
       THEN /\ Logged(r, Call("getDiscussion", idx[r], num, FALSE, 0, 0))
            /\ Throw(r, Failure("RemoteProtocol", idx[r]))
            /\ UNCHANGED <<idx, updated, ctx>>
       ELSE /\ Logged(r, IF num \in LiveNumbers(discussions)
                          THEN Call("getDiscussion", idx[r], num, TRUE,
                                    discussions[num].title, discussions[num].body)
                          ELSE Call("getDiscussion", idx[r], num, TRUE, 0, 0))
            /\ IF num \notin LiveNumbers(discussions)
               THEN /\ pc' = [pc EXCEPT ![r] = "s_createDiscussion"]
                    /\ UNCHANGED <<err, idx, updated, ctx>>
               ELSE IF NeedsUpdate(discussions[num], e)
               THEN /\ pc' = [pc EXCEPT ![r] = "s_updateDiscussion"]
                    /\ UNCHANGED <<err, idx, updated, ctx>>
               ELSE SyncGoto(r, cfg, idx[r] + 1, updated[r])
  /\ UNCHANGED <<op, cfg, disk, categories, discussions, todo, snap, runsLeft,
                 createdFor, cleared>>
  /\ UNCHANGED <<wrote, prior, clientVars, handleVars>>

\* discussion(number: $number)
SyncGetDiscussion(r) ==
  /\ pc[r] = "s_getDiscussion"
  /\ \E ok \in BOOLEAN :
       LET num == ctx[r].num
           e == cfg.errors[idx[r]]
       IN
       IF ~ok \/ num = NaN
       THEN /\ Logged(r, Call("getDiscussion", idx[r], num, FALSE, 0, 0))
            /\ Throw(r, Failure("RemoteProtocol", idx[r]))
            /\ UNCHANGED <<idx, updated, ctx>>
       ELSE /\ Logged(r, IF num \in LiveNumbers(discussions)
                          THEN Call("getDiscussion", idx[r], num, TRUE,
                                    discussions[num].title, discussions[num].body)
                          ELSE Call("getDiscussion", idx[r], num, TRUE, 0, 0))
            /\ IF num \notin LiveNumbers(discussions)
               THEN /\ Throw(r, Failure("DiscussionNotFound", num))
                    /\ UNCHANGED <<idx, updated, ctx>>
               ELSE IF NeedsUpdate(discussions[num], e)
               THEN /\ pc' = [pc EXCEPT ![r] = "s_updateDiscussion"]
                    /\ UNCHANGED <<err, idx, updated, ctx>>
               ELSE SyncGoto(r, cfg, idx[r] + 1, updated[r])
  /\ UNCHANGED <<op, cfg, disk, categories, discussions, todo, snap, runsLeft,
                 createdFor, cleared>>
  /\ UNCHANGED <<wrote, prior, clientVars, handleVars>>

SyncUpdateDiscussion(r) ==
  /\ pc[r] = "s_updateDiscussion"
  /\ \E ok \in BOOLEAN :
       LET num == ctx[r].num
           e == cfg.errors[idx[r]]
           v == UpdateVariables(discussions[num], num, e)
       IN
       IF ok /\ num \in LiveNumbers(discussions)
       THEN /\ discussions' = [discussions EXCEPT ![v.id].title = v.title,
                                                  ![v.id].body = v.body]
            /\ Logged(r, Call("updateDiscussion", idx[r], num, TRUE, 0, 0))
            /\ SyncGoto(r, cfg, idx[r] + 1, updated[r])
       ELSE /\ Logged(r, Call("updateDiscussion", idx[r], num, FALSE, 0, 0))
            /\ Throw(r, Failure("RemoteProtocol", idx[r]))
            /\ UNCHANGED <<discussions, idx, updated, ctx>>
  /\ UNCHANGED <<op, cfg, disk, categories, todo, snap, runsLeft, createdFor, cleared>>
  /\ UNCHANGED <<wrote, prior, clientVars, handleVars>>

\* variant: the URL of the created discussion is not stored in the entry
Linked_NotStored(c, i, url) == c

\* variant: the URL is stored in the first entry, whatever the index
Linked_FirstEntry(c, i, url) == [c EXCEPT !.errors[1]._discussion_link = url]

\* this.sherrorConfig.errors[index]._discussion_link = discussionUrl
Linked(c, i, url) == [c EXCEPT !.errors[i]._discussion_link = url]

SyncCreateDiscussion(r) ==
  /\ pc[r] = "s_createDiscussion"
  /\ \E ok \in BOOLEAN :
       LET i == idx[r]
           e == cfg.errors[i]
           n == Len(discussions) + 1
           v == CreateVariables(ctx[r], e)
           linked == Linked(cfg, i, DiscussionUrl(n))
       IN
       IF ok
       THEN /\ discussions' = Append(discussions, Discussion(v.title, v.body, v.catId))
            /\ cfg' = linked
            /\ createdFor' = [createdFor EXCEPT ![i] = @ \cup {n}]
            /\ Logged(r, Call("createDiscussion", i, n, TRUE, 0, 0))
            /\ SyncGoto(r, linked, i + 1, TRUE)
       ELSE /\ Logged(r, Call("createDiscussion", i, 0, FALSE, 0, 0))
            /\ Throw(r, Failure("RemoteProtocol", i))
            /\ UNCHANGED <<cfg, discussions, createdFor, idx, updated, ctx>>
  /\ UNCHANGED <<op, disk, categories, todo, snap, runsLeft, cleared>>
  /\ UNCHANGED <<wrote, prior, clientVars, handleVars>>

SyncWriteback(r) ==
  /\ pc[r] = "s_writeback"
  /\ Save(r)

\* ------------------------------------------------------------- writeback
\* the caller calls writebackConfig()
WritebackStart(r) ==
  /\ CanStart(r)
  /\ runsLeft' = runsLeft - 1
  /\ op' = [op EXCEPT ![r] = "writeback"]
  /\ snap' = [snap EXCEPT ![r] = [cfg |-> cfg, discussions |-> discussions,
                                   disk |-> disk]]
  /\ log' = [log EXCEPT ![r] = <<>>]
  /\ IF cfg.category_name = ""
     THEN Throw(r, Failure("InvalidConfig", 0))
     ELSE /\ pc' = [pc EXCEPT ![r] = "w_writeback"]
          /\ err' = [err EXCEPT ![r] = NoError]
  /\ UNCHANGED <<cfg, disk, categories, discussions, idx, updated, ctx, todo,
                 createdFor, cleared, wrote, prior, clientVars, handleVars>>

Writeback(r) ==
  /\ pc[r] = "w_writeback"
  /\ Save(r)

\* ----------------------------------------------------------------- clear
\* delete error._discussion_link for every error that has one (a truthy one)
StripLinks(errors) ==
  [i \in 1..Len(errors) |->
     IF Truthy(errors[i]._discussion_link)
     THEN [errors[i] EXCEPT !._discussion_link = NoLink] ELSE errors[i]]

HasLink(errors) == \E i \in 1..Len(errors) : Truthy(errors[i]._discussion_link)

ClearStart(r) ==
  /\ CanStart(r)
  /\ runsLeft' = runsLeft - 1
  /\ op' = [op EXCEPT ![r] = "clear"]
  /\ cleared' = TRUE
  /\ snap' = [snap EXCEPT ![r] = [cfg |-> cfg, discussions |-> discussions,
                                   disk |-> disk]]
  /\ log' = [log EXCEPT ![r] = <<>>]
  /\ IF cfg.category_name = ""
     THEN Throw(r, Failure("InvalidConfig", 0))
     ELSE /\ pc' = [pc EXCEPT ![r] = "c_gitRemote"]
          /\ err' = [err EXCEPT ![r] = NoError]
  /\ UNCHANGED <<cfg, disk, categories, discussions, idx, updated, ctx, todo,
                 createdFor>>
  /\ UNCHANGED <<wrote, prior, clientVars, handleVars>>

ClearGitRemote(r) ==
  /\ pc[r] = "c_gitRemote"
  /\ \E remote \in GitRemotes :
       LET p == parseGitRemote(remote) IN
       IF p.threw
       THEN /\ Throw(r, Failure("Configuration", 0))
            /\ UNCHANGED ctx
       ELSE /\ pc' = [pc EXCEPT ![r] = "c_repositoryInfo"]
            /\ ctx' = [ctx EXCEPT ![r].owner = p.owner, ![r].repo = p.repo]
            /\ UNCHANGED err
  /\ UNCHANGED <<op, cfg, disk, categories, discussions, idx, updated, todo, log,
                 snap, runsLeft, createdFor, cleared>>
  /\ UNCHANGED <<wrote, prior, clientVars, handleVars>>

ClearRepositoryInfo(r) ==
  /\ pc[r] = "c_repositoryInfo"
  /\ \E ok \in BOOLEAN :
       LET repository == repositoryInfo(categories, ctx[r].owner, ctx[r].repo)
           category == FindCategory(repository.nodes, cfg.category_name)
       IN
       /\ Logged(r, Call("repositoryInfo", 0, 0, ok, 0, 0))
       /\ IF ~ok
          THEN Throw(r, Failure("RemoteProtocol", 0)) /\ UNCHANGED ctx
          ELSE IF ~repository.found
          THEN Throw(r, Failure("RepositoryNotFound", 0)) /\ UNCHANGED ctx
          ELSE IF ~category.found
          THEN /\ pc' = [pc EXCEPT ![r] = "done"]
               /\ UNCHANGED <<err, ctx>>
          ELSE /\ pc' = [pc EXCEPT ![r] = "c_listDiscussions"]
               /\ ctx' = [ctx EXCEPT ![r].repoId = repository.id,
                                     ![r].categoryId = category.id]
               /\ UNCHANGED err
  /\ UNCHANGED <<op, cfg, disk, categories, discussions, idx, updated, todo, snap,
                 runsLeft, createdFor, cleared>>
  /\ UNCHANGED <<wrote, prior, clientVars, handleVars>>

ClearListDiscussions(r) ==
  /\ pc[r] = "c_listDiscussions"
  /\ \E ok \in BOOLEAN :
       LET nodes == discussionsInCategory(discussions, ctx[r].categoryId) IN
       /\ Logged(r, Call("listDiscussions", 0, Len(nodes), ok, 0, 0))
       /\ IF ~ok
          THEN Throw(r, Failure("RemoteProtocol", 0)) /\ UNCHANGED todo
          ELSE IF Len(nodes) = 0
          THEN /\ pc' = [pc EXCEPT ![r] = "done"]
               /\ UNCHANGED <<err, todo>>
          ELSE /\ pc' = [pc EXCEPT ![r] = "c_deleteDiscussion"]
               /\ todo' = [todo EXCEPT ![r] = nodes]
               /\ UNCHANGED err
  /\ UNCHANGED <<op, cfg, disk, categories, discussions, idx, updated, ctx, snap,
                 runsLeft, createdFor, cleared>>
  /\ UNCHANGED <<wrote, prior, clientVars, handleVars>>

\* variant: the links are stripped in memory and the run returns
ClearAfterLoop_NoWriteback(errors) ==
  [errors |-> StripLinks(errors), pc |-> "done"]

\* the synchronous code of clear after its last deletion, to the next await
ClearAfterLoop(errors) ==
  [errors |-> StripLinks(errors),
   pc |-> IF HasLink(errors) THEN "c_writeback" ELSE "done"]

\* variant: a failed deletion is logged and the loop goes on
ClearDeleteDiscussion_Continue(r) ==
  /\ pc[r] = "c_deleteDiscussion"
  /\ \E ok \in BOOLEAN :
       LET num == Head(todo[r])
           after == ClearAfterLoop(cfg.errors)
       IN
       /\ IF ok /\ num \in LiveNumbers(discussions)
          THEN /\ discussions' = [discussions EXCEPT ![num].live = FALSE]
               /\ Logged(r, Call("deleteDiscussion", 0, num, TRUE, 0, 0))
          ELSE /\ Logged(r, Call("deleteDiscussion", 0, num, FALSE, 0, 0))
               /\ UNCHANGED discussions
       /\ todo' = [todo EXCEPT ![r] = Tail(@)]
       /\ IF Len(todo[r]) > 1
          THEN UNCHANGED <<cfg, pc, updated>>
          ELSE /\ cfg' = [cfg EXCEPT !.errors = after.errors]
               /\ updated' = [updated EXCEPT ![r] = HasLink(cfg.errors)]
               /\ pc' = [pc EXCEPT ![r] = after.pc]
       /\ UNCHANGED err
  /\ UNCHANGED <<op, disk, categories, idx, ctx, snap, runsLeft, createdFor, cleared>>
  /\ UNCHANGED <<wrote, prior, clientVars, handleVars>>

ClearDeleteDiscussion(r) ==
  /\ pc[r] = "c_deleteDiscussion"
  /\ \E ok \in BOOLEAN :
       LET num == Head(todo[r])
           after == ClearAfterLoop(cfg.errors)
       IN
       IF ok /\ num \in LiveNumbers(discussions)
       THEN /\ discussions' = [discussions EXCEPT ![num].live = FALSE]
            /\ Logged(r, Call("deleteDiscussion", 0, num, TRUE, 0, 0))
            /\ todo' = [todo EXCEPT ![r] = Tail(@)]
            /\ IF Len(todo[r]) > 1
               THEN UNCHANGED <<cfg, pc, updated>>
               ELSE /\ cfg' = [cfg EXCEPT !.errors = after.errors]
                    /\ updated' = [updated EXCEPT ![r] = HasLink(cfg.errors)]
                    /\ pc' = [pc EXCEPT ![r] = after.pc]
            /\ UNCHANGED err
       ELSE /\ Logged(r, Call("deleteDiscussion", 0, num, FALSE, 0, 0))
            /\ Throw(r, Failure("RemoteProtocol", num))
            /\ UNCHANGED <<cfg, discussions, todo, updated>>
  /\ UNCHANGED <<op, disk, categories, idx, ctx, snap, runsLeft, createdFor, cleared>>
  /\ UNCHANGED <<wrote, prior, clientVars, handleVars>>

ClearWriteback(r) ==
  /\ pc[r] = "c_writeback"
  /\ Save(r)

\* -------------------------------------------------------------- accessor
\* variant: the last definition with the code is taken
FindError_Last(errors, code) ==
  IF \E i \in 1..Len(errors) : errors[i].error_code = code
  THEN CHOOSE i \in 1..Len(errors) :
         /\ errors[i].error_code = code
         /\ \A k \in (i + 1)..Len(errors) : errors[k].error_code # code
  ELSE 0

\* errors.find((e) => e.error_code === code): the index of the first, or 0
FindError(errors, code) ==
  IF \E i \in 1..Len(errors) : errors[i].error_code = code
  THEN CHOOSE i \in 1..Len(errors) :
         /\ errors[i].error_code = code
         /\ \A k \in 1..(i - 1) : errors[k].error_code # code
  ELSE 0

Codes == 1..(MaxErrs + 1)

Codepaths == {NoCodepath, [file |-> "main.ts", line |-> 12]}

\* what get(code) returns: the fields of err with the styled message, and err
\* itself (by its index), which print() reads
Handle(c, code) ==
  LET at == FindError(c.errors, code) IN
  IF at = 0 THEN [status |-> "threw", code |-> code]
  ELSE [status |-> "ok", code |-> code, at |-> at,
        error |-> [c.errors[at] EXCEPT !.app_message = colorize(@)]]

\* variant: the styled message is stored in the definition
GetEffect_Styles(c, code) ==
  LET at == FindError(c.errors, code) IN
  IF at = 0 THEN c ELSE [c EXCEPT !.errors[at].app_message = colorize(@)]

\* what get(code) does to the config: nothing
GetEffect(c, code) == c

Get(code) ==
  /\ client = Ready
  /\ \A r \in Runs : Idle(r)
  /\ handle' = Handle(cfg, code)
  /\ cfg' = GetEffect(cfg, code)
  /\ printed' = NoPrint
  /\ UNCHANGED <<disk, categories, discussions, op, pc, idx, updated, ctx, todo,
                 err, log, snap, runsLeft, createdFor, cleared, wrote, prior,
                 clientVars>>

\* this.sherrorConfig?.printer?.(e, codepath?.toString())
Invocations(c, e, codepath) ==
  IF c.printer = "function"
  THEN <<[printer |-> "configured", error |-> e,
          codepath |-> CodepathToString(codepath)]>>
  ELSE <<>>

\* handle.print(codepath): e is { ...err, app_message }
HandlePrint(codepath) ==
  /\ handle.status = "ok"
  /\ \A r \in Runs : Idle(r)
  /\ LET e == [cfg.errors[handle.at] EXCEPT !.app_message = handle.error.app_message]
     IN printed' = [called |-> TRUE, codepath |-> codepath,
                    def |-> cfg.errors[handle.at],
                    invocations |-> Invocations(cfg, e, codepath)]
  /\ UNCHANGED <<cfg, disk, categories, discussions, op, pc, idx, updated, ctx,
                 todo, err, log, snap, runsLeft, createdFor, cleared, wrote,
                 prior, clientVars, handle>>

\* the caller gets the result (or the error) of the run
Return(r) ==
  /\ Ended(r)
  /\ op' = [op EXCEPT ![r] = "none"]
  /\ pc' = [pc EXCEPT ![r] = "idle"]
  /\ idx' = [idx EXCEPT ![r] = 0]
  /\ updated' = [updated EXCEPT ![r] = FALSE]
  /\ ctx' = [ctx EXCEPT ![r] = NoCtx]
  /\ todo' = [todo EXCEPT ![r] = <<>>]
  /\ err' = [err EXCEPT ![r] = NoError]
  /\ log' = [log EXCEPT ![r] = <<>>]
  /\ snap' = [snap EXCEPT ![r] = NoSnap]
  /\ prior' = [op |-> op[r], pc |-> pc[r],
                deleting |-> /\ pc[r] = "failed" /\ log[r] # <<>>
                             /\ Last(log[r]).kind = "deleteDiscussion"]
  /\ UNCHANGED <<cfg, disk, categories, discussions, runsLeft, createdFor, cleared>>
  /\ UNCHANGED <<wrote, clientVars, handleVars>>

\* the process ends and a new client is constructed from the artifact
Restart ==
  /\ client = Ready
  /\ \A r \in Runs : Idle(r)
  /\ cfg # ParseArtifact(disk)
  /\ cfg' = ParseArtifact(disk)
  /\ client' = constructor(ghToken, ParseArtifact(disk))
  /\ handle' = NoHandle
  /\ printed' = NoPrint
  /\ prior' = NoPrior
  /\ UNCHANGED <<op, disk, categories, discussions, pc, idx, updated, ctx, todo, err,
                 log, snap, runsLeft, createdFor, cleared, wrote, ghToken, awaited>>

Next ==
  \/ Construct
  \/ \E r \in Runs : SyncStart(r)
  \/ \E r \in Runs : SyncGitRemote(r)
  \/ \E r \in Runs : SyncRepositoryInfo(r)
  \/ \E r \in Runs : SyncGetDiscussion(r)
  \/ \E r \in Runs : SyncUpdateDiscussion(r)
  \/ \E r \in Runs : SyncCreateDiscussion(r)
  \/ \E r \in Runs : SyncWriteback(r)
  \/ \E r \in Runs : ClearStart(r)
  \/ \E r \in Runs : ClearGitRemote(r)
  \/ \E r \in Runs : ClearRepositoryInfo(r)
  \/ \E r \in Runs : ClearListDiscussions(r)
  \/ \E r \in Runs : ClearDeleteDiscussion(r)
  \/ \E r \in Runs : ClearWriteback(r)
  \/ \E r \in Runs : WritebackStart(r)
  \/ \E r \in Runs : Writeback(r)
  \/ \E r \in Runs : Return(r)
  \/ Restart

Spec == Init /\ [][Next]_vars

\* the client in a program that also looks errors up and prints them
AccessorVariants ==
  { Default, [Default EXCEPT !.codes = "same"],
    [Default EXCEPT !.shape = [GoodShape EXCEPT !.printer = "none"]] }

AccessorInit ==
  \E ds \in {NoDiscussions, SomeDiscussions} :
  \E errors \in InitErrors(ds), v \in AccessorVariants :
    /\ \A i \in 1..Len(errors) : errors[i].post_title = 1
    /\ Setup(Vary(errors, v), ds, v, TRUE)

AccessorNext ==
  \/ Next
  \/ \E code \in Codes : Get(code)
  \/ \E codepath \in Codepaths : HandlePrint(codepath)

SpecAccessor == AccessorInit /\ [][AccessorNext]_vars

\* sync() runs on one client, by a caller that awaits each run or by one that
\* starts a run while another is under way
ConcurrentInit ==
  \E ds \in {NoDiscussions, SomeDiscussions} :
  \E errors \in InitErrors(ds), aw \in BOOLEAN :
    /\ \A i \in 1..Len(errors) : errors[i].post_title = 1
    /\ Setup(errors, ds, Default, aw)

ConcurrentNext ==
  \/ Construct
  \/ \E r \in Runs : SyncStart(r)
  \/ \E r \in Runs : SyncGitRemote(r)
  \/ \E r \in Runs : SyncRepositoryInfo(r)
  \/ \E r \in Runs : SyncGetDiscussion(r)
  \/ \E r \in Runs : SyncUpdateDiscussion(r)
  \/ \E r \in Runs : SyncCreateDiscussion(r)
  \/ \E r \in Runs : SyncWriteback(r)
  \/ \E r \in Runs : Return(r)

SpecConcurrent == ConcurrentInit /\ [][ConcurrentNext]_vars

\* ---------------------------------------------------------------- claims
Calls(r, kind) == {k \in 1..Len(log[r]) : log[r][k].kind = kind}

LinkedNumber(e) == parseDiscussionNumber(e._discussion_link).num

\* entry e is linked to a live discussion of ds with its title and body
Matches(e, ds) ==
  /\ Truthy(e._discussion_link)
  /\ LinkedNumber(e) \in LiveNumbers(ds)
  /\ ds[LinkedNumber(e)].title = e.post_title
  /\ ds[LinkedNumber(e)].body = e.post_body

Lacking(errors) == {i \in 1..Len(errors) : ~Truthy(errors[i]._discussion_link)}

SyncReturned(r) == op[r] = "sync" /\ pc[r] = "done"

C2_CreatesThenOneWriteback ==
  \A r \in Runs :
    (SyncReturned(r) /\ Lacking(snap[r].cfg.errors) # {}) =>
      /\ Cardinality(Calls(r, "createDiscussion"))
           = Cardinality(Lacking(snap[r].cfg.errors))
      /\ \A i \in Lacking(snap[r].cfg.errors) :
           \E k \in Calls(r, "createDiscussion") :
             /\ log[r][k].at = i
             /\ log[r][k].ok
             /\ cfg.errors[i]._discussion_link = DiscussionUrl(log[r][k].num)
             /\ discussions[log[r][k].num].cat = CatId(cfg.category_name)
             /\ log[r][k].num \notin 1..Len(snap[r].discussions)
      /\ Calls(r, "writeback") = {Len(log[r])}

\* a sync() that created a discussion for each of two unlinked entries returned
C2_Witness ==
  \E r \in Runs :
    /\ SyncReturned(r)
    /\ Cardinality(Lacking(snap[r].cfg.errors)) >= 2
    /\ Cardinality(Calls(r, "createDiscussion")) >= 2

\* C3: for an entry with a link, sync() issues the update mutation exactly when
\* the fetched title or body differs from the entry's; a run on a config whose
\* entries are all linked and match issues no update, no create, no writeback.
C3_UpdateIffDiffers ==
  \A r \in Runs : op[r] = "sync" =>
    /\ \A k \in Calls(r, "getDiscussion") :
         (log[r][k].ok /\ log[r][k].title # 0) =>
           ( ( \/ log[r][k].title # cfg.errors[log[r][k].at].post_title
               \/ log[r][k].body # cfg.errors[log[r][k].at].post_body )
             <=>
             ( \/ /\ k < Len(log[r])
                  /\ log[r][k + 1].kind = "updateDiscussion"
                  /\ log[r][k + 1].at = log[r][k].at
                  /\ log[r][k + 1].num = log[r][k].num
               \/ /\ k = Len(log[r])
                  /\ pc[r] = "s_updateDiscussion"
                  /\ idx[r] = log[r][k].at ) )
    /\ \A k \in Calls(r, "updateDiscussion") :
         k > 1 /\ log[r][k - 1].kind = "getDiscussion" /\ log[r][k - 1].ok
    /\ ( /\ pc[r] = "done"
         /\ \A i \in 1..Len(snap[r].cfg.errors) :
              Matches(snap[r].cfg.errors[i], snap[r].discussions) )
       => /\ Calls(r, "updateDiscussion") = {}
          /\ Calls(r, "createDiscussion") = {}
          /\ Calls(r, "writeback") = {}

\* a sync() returned that fetched two discussions and updated only one of them,
\* the one whose body alone differed
C3_Witness ==
  \E r \in Runs :
    /\ SyncReturned(r)
    /\ Cardinality(Calls(r, "getDiscussion")) = 2
    /\ Cardinality(Calls(r, "updateDiscussion")) = 1
    /\ \E k \in Calls(r, "getDiscussion") :
         /\ log[r][k].title = cfg.errors[log[r][k].at].post_title
         /\ log[r][k].body # cfg.errors[log[r][k].at].post_body

\* the repository lookup of run r succeeded and found the repository
LookedUp(r) ==
  /\ log[r] # <<>>
  /\ log[r][1].kind = "repositoryInfo"
  /\ log[r][1].ok
  /\ ctx[r].owner = RepoOwner /\ ctx[r].repo = RepoName

\* C4: when category_name matches no category of the repository, sync() fails
\* with the category-not-found error, which lists the repository's categories;
\* no fetch, create, update or writeback was issued and the config is unchanged.
C4_CategoryNotFoundListsCategories ==
  \A r \in Runs :
    ( /\ op[r] = "sync"
      /\ LookedUp(r)
      /\ cfg.category_name \notin Range(CategoryNames(categories)) )
    => /\ pc[r] = "failed"
       /\ err[r].kind = "CategoryNotFound"
       /\ err[r].listed = CategoryNames(categories)
       /\ Len(log[r]) = 1
       /\ cfg = snap[r].cfg
       /\ discussions = snap[r].discussions

\* what holds of the code: the same, with the categories of the lookup's page
C4_CategoryNotFoundListsPage ==
  \A r \in Runs :
    ( /\ op[r] = "sync"
      /\ LookedUp(r)
      /\ cfg.category_name \notin Range(CategoryNames(categories)) )
    => /\ pc[r] = "failed"
       /\ err[r].kind = "CategoryNotFound"
       /\ err[r].listed = CategoryNames(First(categories, CategoryPageSize))
       /\ Len(log[r]) = 1
       /\ cfg = snap[r].cfg
       /\ discussions = snap[r].discussions

\* C5: as long as no clear() has run, sync() runs (aborted ones and runs after
\* a restart from the artifact included) have created at most one discussion
\* for each error definition.
C5_OneDiscussionPerError ==
  ~cleared => \A i \in DOMAIN createdFor : Cardinality(createdFor[i]) <= 1

\* C6: when a sync() run that recorded a new link in memory has ended, normally
\* or with an error, it has invoked writeback and the artifact (one writeback
\* can rewrite) holds every link the run created.
C6_CreatedLinksPersisted ==
  \A r \in Runs :
    ( /\ op[r] = "sync"
      /\ Ended(r)
      /\ StructuralError(disk) = "none" )
    => \A k \in Calls(r, "createDiscussion") :
         log[r][k].ok =>
           /\ Calls(r, "writeback") # {}
           /\ ParseArtifact(disk).errors[log[r][k].at]._discussion_link
                = DiscussionUrl(log[r][k].num)

RemoteKinds ==
  {"repositoryInfo", "getDiscussion", "updateDiscussion", "createDiscussion",
   "listDiscussions", "deleteDiscussion"}

\* C7: once a remote call of a sync() run has failed, the run is over: it has
\* thrown, it issues no further call (the failed one included), and the
\* discussions stay as the run's earlier calls left them.
C7_FailureStopsRun ==
  [][ \A r \in Runs :
        ( /\ op[r] = "sync"
          /\ log[r] # <<>>
          /\ Last(log[r]).kind \in RemoteKinds
          /\ ~Last(log[r]).ok )
        => /\ pc[r] = "failed"
           /\ err[r].kind = "RemoteProtocol"
           /\ discussions' = discussions
           /\ cfg' = cfg
           /\ (log'[r] = log[r] /\ pc'[r] = "failed") \/ pc'[r] = "idle" ]_vars

\* a sync() failed on a call after it had created a discussion, which is live
C7_Witness ==
  \E r \in Runs :
    /\ op[r] = "sync" /\ pc[r] = "failed" /\ log[r] # <<>>
    /\ Last(log[r]).kind \in RemoteKinds /\ ~Last(log[r]).ok
    /\ \E k \in Calls(r, "createDiscussion") :
         log[r][k].ok /\ log[r][k].num \in LiveNumbers(discussions)

\* the numbers clear() of run r was given by its list query
Listed(r) ==
  discussionsInCategory(snap[r].discussions, CatId(snap[r].cfg.category_name))

\* every deletion of run r was issued and succeeded
AllDeleted(r) ==
  /\ op[r] = "clear"
  /\ Calls(r, "listDiscussions") # {}
  /\ \A k \in Calls(r, "listDiscussions") : log[r][k].ok /\ log[r][k].num >= 1
  /\ \A k \in Calls(r, "deleteDiscussion") : log[r][k].ok
  /\ \A k \in Calls(r, "listDiscussions") :
       Cardinality(Calls(r, "deleteDiscussion")) = log[r][k].num

\* C8: a clear() on a category holding n discussions, 1 <= n <= 100, whose
\* deletions all succeed has deleted those n and no discussion outside the
\* category, has left no error definition with a link and, when a link was
\* stripped, invokes writeback exactly once, after the last deletion.
C8_ClearDeletesCategory ==
  \A r \in Runs :
    ( /\ AllDeleted(r)
      /\ Cardinality({n \in LiveNumbers(snap[r].discussions) :
            snap[r].discussions[n].cat = CatId(snap[r].cfg.category_name)})
           <= DiscussionPageSize )
    => /\ \A n \in 1..Len(discussions) :
            IF snap[r].discussions[n].cat = CatId(snap[r].cfg.category_name)
            THEN ~discussions[n].live
            ELSE discussions[n] = snap[r].discussions[n]
       /\ \A i \in 1..Len(cfg.errors) : ~Truthy(cfg.errors[i]._discussion_link)
       /\ IF HasLink(snap[r].cfg.errors)
          THEN \/ pc[r] = "c_writeback" /\ Calls(r, "writeback") = {}
               \/ Ended(r) /\ Calls(r, "writeback") = {Len(log[r])}
          ELSE pc[r] = "done" /\ Calls(r, "writeback") = {}

\* a clear() deleted two discussions, spared one of another category, stripped
\* a link and wrote back
C8_Witness ==
  \E r \in Runs :
    /\ AllDeleted(r) /\ pc[r] = "done"
    /\ Cardinality(Calls(r, "deleteDiscussion")) = 2
    /\ HasLink(snap[r].cfg.errors)
    /\ Calls(r, "writeback") # {}
    /\ \E n \in LiveNumbers(discussions) :
         discussions[n].cat # CatId(cfg.category_name)

\* C9: when a clear() that resolved the category returns without error (the
\* category may hold no discussion), no error definition has a link.
C9_ClearLeavesNoLink ==
  \A r \in Runs :
    ( /\ op[r] = "clear"
      /\ pc[r] = "done"
      /\ Calls(r, "listDiscussions") # {} )
    => \A i \in 1..Len(cfg.errors) : ~Truthy(cfg.errors[i]._discussion_link)

\* C10: when the k-th deletion of a clear() fails, the run has thrown the
\* error of that call, it was the run's last call, the k-1 discussions before
\* it in the list are deleted, the others of the list are live, no link was
\* stripped and writeback was not invoked.
C10_DeletionFailureAborts ==
  \A r \in Runs :
    \A k \in Calls(r, "deleteDiscussion") :
      ~log[r][k].ok =>
        LET done == Cardinality(Calls(r, "deleteDiscussion")) - 1 IN
        /\ k = Len(log[r])
        /\ pc[r] = "failed"
        /\ err[r] = Failure("RemoteProtocol", log[r][k].num)
        /\ log[r][k].num = Listed(r)[done + 1]
        /\ \A j \in 1..Len(Listed(r)) :
             discussions[Listed(r)[j]].live <=> j > done
        /\ cfg = snap[r].cfg
        /\ Calls(r, "writeback") = {}

\* the second deletion of a clear() failed, with links in the config
C10_Witness ==
  \E r \in Runs :
    /\ op[r] = "clear" /\ pc[r] = "failed"
    /\ Cardinality(Calls(r, "deleteDiscussion")) = 2
    /\ ~Last(log[r]).ok /\ Last(log[r]).kind = "deleteDiscussion"
    /\ HasLink(cfg.errors)

\* C11: when category_name matches no category of the repository, clear()
\* returns without error after the repository lookup alone: it has issued no
\* list query and no deletion, has invoked no writeback, and the config in
\* memory, the artifact and the discussions are as they were when it started.
C11_ClearMissingCategoryReturns ==
  \A r \in Runs :
    ( /\ op[r] = "clear"
      /\ LookedUp(r)
      /\ cfg.category_name \notin Range(CategoryNames(categories)) )
    => /\ pc[r] = "done"
       /\ err[r] = NoError
       /\ Len(log[r]) = 1
       /\ Calls(r, "listDiscussions") = {}
       /\ Calls(r, "deleteDiscussion") = {}
       /\ Calls(r, "writeback") = {}
       /\ cfg = snap[r].cfg
       /\ disk = snap[r].disk
       /\ discussions = snap[r].discussions

\* a clear() returned on a category the repository lacks, with links in the
\* config and live discussions in the repository
C11_Witness ==
  \E r \in Runs :
    /\ op[r] = "clear" /\ pc[r] = "done" /\ LookedUp(r)
    /\ cfg.category_name \notin Range(CategoryNames(categories))
    /\ HasLink(cfg.errors)
    /\ LiveNumbers(discussions) # {}

StructuralKinds ==
  {"NoExport", "NotObjectLiteral", "NoErrorsProperty", "NotArrayLiteral"}

WritebackSteps == {"s_writeback", "c_writeback", "w_writeback"}

\* the last call of run r was a writeback that saved
WroteBack(r) ==
  /\ Ended(r) /\ log[r] # <<>>
  /\ Last(log[r]).kind = "writeback" /\ Last(log[r]).ok

\* C12: a writeback that fails because the export, the object literal, the
\* errors property or its array literal is not found is the last call of its
\* run and leaves the artifact as it was when the run started; a run changes
\* the artifact only by a writeback that saved, as its last call.
C12_FailedWritebackKeepsArtifact ==
  \A r \in Runs :
    /\ \A k \in Calls(r, "writeback") :
         ~log[r][k].ok =>
           /\ k = Len(log[r])
           /\ pc[r] = "failed"
           /\ err[r].kind \in StructuralKinds
           /\ err[r].kind = StructuralError(disk)
           /\ disk = snap[r].disk
    /\ (op[r] # "none" /\ disk # snap[r].disk) => WroteBack(r)

\* a sync() that created a discussion failed in writeback, for an errors
\* property that is not an array literal
C12_Witness ==
  \E r \in Runs :
    /\ op[r] = "sync" /\ pc[r] = "failed"
    /\ err[r].kind = "NotArrayLiteral"
    /\ \E k \in Calls(r, "createDiscussion") : log[r][k].ok
    /\ cfg # snap[r].cfg

\* C13: a writeback that saves the errors the last saved writeback saved
\* leaves the artifact as that one left it: same elements, same text.
C13_WritebackIdempotent ==
  [][ \A r \in Runs :
        ( /\ pc[r] \in WritebackSteps
          /\ pc'[r] = "done"
          /\ wrote.saved
          /\ wrote.errors = cfg.errors )
        => /\ disk' = disk
           /\ disk' = wrote.file ]_vars

\* two writebacks in a row saved the same errors, one of them with a link, and
\* the artifact is still what the second left
C13_Witness ==
  /\ wrote.saved /\ wrote.repeat
  /\ HasLink(wrote.errors)
  /\ Len(wrote.file.elements) = MaxErrs
  /\ \E r \in Runs : WroteBack(r) /\ disk = wrote.file

\* C14: after a writeback that saved, the element of an error has the link
\* field exactly when the error has a link (a non-empty string); an error
\* without one is written with error_code, app_message, post_title and
\* post_body in that order and nothing else, and importing the artifact gives
\* no link for it.
C14_LinkFieldIffLinked ==
  \A r \in Runs : WroteBack(r) =>
    \A i \in 1..Len(cfg.errors) :
      LET text == disk.elements[i]
          e == cfg.errors[i]
      IN /\ ("_discussion_link" \in Range(text.fields)) <=> Truthy(e._discussion_link)
         /\ Truthy(e._discussion_link) =>
              /\ text.fields = Append(FieldOrder, "_discussion_link")
              /\ ParseArtifact(disk).errors[i]._discussion_link = e._discussion_link
         /\ ~Truthy(e._discussion_link) =>
              /\ text.fields = FieldOrder
              /\ text._discussion_link = NoLink
              /\ ParseArtifact(disk).errors[i]._discussion_link = NoLink

\* a writeback saved an error whose link is the empty string and one with a link
C14_Witness ==
  \E r \in Runs :
    /\ WroteBack(r)
    /\ \E i \in 1..Len(cfg.errors) : cfg.errors[i]._discussion_link = EmptyLink
    /\ \E i \in 1..Len(cfg.errors) : Truthy(cfg.errors[i]._discussion_link)

\* the step is a get(code)
GetStep == handle' # handle /\ handle'.status # "none"

\* message is definition's app_message with each tag replaced
Styled(message, written) ==
  /\ Len(message) = Len(written)
  /\ \A k \in 1..Len(written) :
       message[k] = IF written[k] = "<red>" THEN "ESC[31m"
                    ELSE IF written[k] = "<blue>" THEN "ESC[34m"
                    ELSE IF written[k] \in {"</red>", "</blue>"} THEN "ESC[0m"
                    ELSE written[k]

\* C15: get(code) for a code no error definition has throws and returns
\* nothing; for a code some definition has, it returns the fields of the first
\* definition with that code, in declaration order, with the app_message in
\* its styled form.
C15_GetFirstOrNotFound ==
  [][ GetStep =>
        LET having == {i \in 1..Len(cfg.errors) :
                         cfg.errors[i].error_code = handle'.code}
        IN IF having = {}
           THEN handle'.status = "threw" /\ DOMAIN handle' = {"status", "code"}
           ELSE /\ handle'.status = "ok"
                /\ handle'.at \in having
                /\ \A i \in having : handle'.at <= i
                /\ LET def == cfg.errors[handle'.at] IN
                   /\ handle'.error.error_code = def.error_code
                   /\ handle'.error.post_title = def.post_title
                   /\ handle'.error.post_body = def.post_body
                   /\ handle'.error._discussion_link = def._discussion_link
                   /\ Styled(handle'.error.app_message, def.app_message) ]_vars

\* get(1) returned the first of two definitions with code 1
C15_Witness ==
  /\ handle.status = "ok" /\ handle.at = 1
  /\ Cardinality({i \in 1..Len(cfg.errors) : cfg.errors[i].error_code = handle.code}) = 2
  /\ handle.error.app_message # cfg.errors[1].app_message

\* C16: get(code), whether it returns or throws, issues no call and leaves
\* the config in memory, the artifact, the categories and the discussions as
\* they are.
C16_GetIsPureRead ==
  [][ GetStep =>
        /\ cfg' = cfg
        /\ disk' = disk
        /\ categories' = categories
        /\ discussions' = discussions
        /\ log' = log /\ pc' = pc ]_vars

\* get returned a handle with a styled message and a link; the definition
\* it was made from has the message as written
C16_Witness ==
  /\ handle.status = "ok"
  /\ Truthy(handle.error._discussion_link)
  /\ cfg.errors[handle.at].app_message = Message(handle.at)
  /\ handle.error.app_message # Message(handle.at)

\* C17: print(codepath?) of a handle invokes exactly one printer, the
\* configured one when the config has one and a default one otherwise, with
\* the styled message, the definition's link and the codepath.
C17_PrintInvokesOnePrinter ==
  printed.called =>
    /\ Len(printed.invocations) = 1
    /\ LET inv == printed.invocations[1] IN
       /\ inv.printer = IF cfg.printer = "function" THEN "configured" ELSE "default"
       /\ inv.error.app_message = handle.error.app_message
       /\ inv.error._discussion_link = printed.def._discussion_link
       /\ inv.codepath = CodepathToString(printed.codepath)

\* what holds of the code: with a configured printer, print() invokes it once
\* with the styled message, the definition's link as it is (undefined when
\* there is none) and the codepath as a string; without one, it invokes nothing
C17_PrintInvokesConfigured ==
  printed.called =>
    IF cfg.printer = "function"
    THEN /\ Len(printed.invocations) = 1
         /\ LET inv == printed.invocations[1] IN
            /\ inv.printer = "configured"
            /\ inv.error.app_message = handle.error.app_message
            /\ inv.error._discussion_link = printed.def._discussion_link
            /\ inv.codepath = CodepathToString(printed.codepath)
    ELSE printed.invocations = <<>>

HasName(config) == "category_name" \in DOMAIN config /\ config.category_name # ""

\* C18: new SherrorClient(config) throws when the token is absent, or
\* category_name is empty or undefined, or the errors are empty or undefined;
\* otherwise it returns a client.
C18_RefusesEmptyOrUndefined ==
  client.made # "no" =>
    ( client = Ready
      <=> /\ ghToken = "set"
          /\ HasName(cfg)
          /\ "errors" \in DOMAIN cfg
          /\ cfg.errors # <<>> )

\* what holds of the code: new SherrorClient(config) throws when the token is
\* absent or empty (the token error), or when category_name is empty or
\* undefined or errors is undefined (the invalid-config error); otherwise it
\* returns a client: an empty array of errors is accepted
C18_RefusesMissingFields ==
  client.made # "no" =>
    /\ client = Ready
         <=> (ghToken = "set" /\ HasName(cfg) /\ "errors" \in DOMAIN cfg)
    /\ client.made = "refused" =>
         client.err = IF ghToken # "set" THEN "NoToken" ELSE "InvalidConfig"

Greatest(S) == CHOOSE n \in S : \A m \in S : m <= n

\* C19: sync() runs that interleave on one client can each find the same
\* entry without a link and each create a discussion for it: two discussions
\* stand for the one error and the entry keeps the link of the later one.
\* When the caller awaits each run before the next, no entry gets a second
\* discussion.
C19_SerializedRunsCreateOnce ==
  \A i \in DOMAIN createdFor :
    /\ awaited => Cardinality(createdFor[i]) <= 1
    /\ Cardinality(createdFor[i]) >= 2 =>
         /\ ~awaited
         /\ \A n \in createdFor[i] : n \in LiveNumbers(discussions)
         /\ cfg.errors[i]._discussion_link = DiscussionUrl(Greatest(createdFor[i]))

\* two runs under way at once have each created a discussion for entry 1,
\* which had no link when either started
C19_Witness ==
  /\ ~awaited
  /\ Cardinality(createdFor[1]) = 2
  /\ \A r \in Runs :
       /\ op[r] = "sync"
       /\ ~Truthy(snap[r].cfg.errors[1]._discussion_link)
       /\ \E k \in Calls(r, "createDiscussion") : log[r][k].at = 1 /\ log[r][k].ok
  /\ cfg.errors[1]._discussion_link = DiscussionUrl(Greatest(createdFor[1]))

Invalid(e) == ~IsString(e.post_title) \/ ~IsString(e.post_body)

\* C20: when sync() comes to an entry, at index k, whose post_title or
\* post_body is not a string, it throws the validation error of that entry;
\* the entries below k keep what their fetch, update or create did (each
\* matches a live discussion, created ones included), and the run has issued
\* no call for index k or above and no writeback.
C20_ValidationStopsAtEntry ==
  \A r \in Runs :
    ( /\ op[r] = "sync"
      /\ idx[r] \in 1..Len(cfg.errors)
      /\ Invalid(cfg.errors[idx[r]]) )
    => LET k == idx[r] IN
       /\ pc[r] = "failed"
       /\ err[r] = Failure("Validation", k)
       /\ \A j \in 1..(k - 1) : Matches(cfg.errors[j], discussions)
       /\ \A n \in 1..Len(log[r]) : log[r][n].at < k
       /\ Calls(r, "writeback") = {}
       /\ disk = snap[r].disk

\* a sync() that created a discussion for entry 1 failed on the last entry,
\* which has a title and no body
C20_Witness ==
  \E r \in Runs :
    /\ op[r] = "sync" /\ pc[r] = "failed"
    /\ Len(cfg.errors) >= 2
    /\ err[r] = Failure("Validation", Len(cfg.errors))
    /\ IsString(cfg.errors[Len(cfg.errors)].post_title)
    /\ \E k \in Calls(r, "createDiscussion") :
         /\ log[r][k].at = 1 /\ log[r][k].ok
         /\ log[r][k].num \in LiveNumbers(discussions)
         /\ cfg.errors[1]._discussion_link = DiscussionUrl(log[r][k].num)

\* the link entry i of run r had when the run started
LinkAtStart(r, i) == snap[r].cfg.errors[i]._discussion_link

\* C21: sync() looks a linked entry up by the last path segment of its link
\* (every entry with a link the run has passed was looked up); when the
\* platform has no discussion of that number the run has thrown the not-found
\* error of that number, the lookup is its last call, no call was issued for
\* that entry besides it nor for a later one, and the discussions are as they
\* were at the lookup; no create is ever issued for an entry that had a link.
C21_LinkedEntryLookedUpOrNotFound ==
  \A r \in Runs : op[r] = "sync" =>
    /\ \A k \in Calls(r, "getDiscussion") :
         LET link == LinkAtStart(r, log[r][k].at) IN
         /\ link.kind = "url"
         /\ log[r][k].num = link.path[Len(link.path)]
         /\ cfg.errors[log[r][k].at]._discussion_link = link
    /\ \A i \in 1..Len(snap[r].cfg.errors) :
         (Truthy(LinkAtStart(r, i)) /\ idx[r] > i) =>
           \E k \in Calls(r, "getDiscussion") : log[r][k].at = i /\ log[r][k].ok
    /\ \A k \in Calls(r, "getDiscussion") :
         (log[r][k].ok /\ log[r][k].num \notin LiveNumbers(discussions)) =>
           /\ k = Len(log[r])
           /\ pc[r] = "failed"
           /\ err[r] = Failure("DiscussionNotFound", log[r][k].num)
           /\ \A j \in 1..(k - 1) : log[r][j].at < log[r][k].at
           /\ Len(discussions) = Len(snap[r].discussions)
                + Cardinality(Calls(r, "createDiscussion"))
    /\ \A k \in Calls(r, "createDiscussion") :
         ~Truthy(LinkAtStart(r, log[r][k].at))

\* a sync() failed on the lookup of entry 1, whose link is the URL of a
\* discussion that was deleted; entry 2 has no link and no discussion was made
C21_Witness ==
  \E r \in Runs :
    /\ op[r] = "sync" /\ pc[r] = "failed"
    /\ Len(cfg.errors) >= 2
    /\ cfg.errors[1]._discussion_link = DiscussionUrl(1)
    /\ err[r] = Failure("DiscussionNotFound", 1)
    /\ ~Truthy(cfg.errors[2]._discussion_link)
    /\ discussions = snap[r].discussions

EntryKinds == {"getDiscussion", "updateDiscussion", "createDiscussion"}

EntrySteps == {"s_getDiscussion", "s_updateDiscussion", "s_createDiscussion"}

\* the remote calls of run r that have returned, in order
RemoteLog(r) == SelectSeq(log[r], LAMBDA call : call.kind \in RemoteKinds)

\* C22: a run of sync() or clear() issues its remote calls one after the
\* other.  In sync() the repository lookup has returned, with the repository,
\* before any call for an entry; the calls for the entries have returned in
\* declaration order, each of them successfully except the last, and the call
\* the run awaits is for an entry no earlier than any of them.  In clear() the
\* lookup precedes the list query, which precedes the deletions, and the
\* deletions follow the order of the list.
C22_CallsInDeclarationOrder ==
  \A r \in Runs :
    LET calls == RemoteLog(r) IN
    /\ op[r] = "sync" =>
         /\ \A j, k \in 1..Len(calls) : j < k => calls[j].at <= calls[k].at
         /\ \A k \in 1..(Len(calls) - 1) : calls[k].ok
         /\ (pc[r] \in EntrySteps \/ \E k \in 1..Len(calls) : calls[k].kind \in EntryKinds)
              => /\ calls # <<>>
                 /\ calls[1].kind = "repositoryInfo" /\ calls[1].ok
                 /\ \A k \in 2..Len(calls) : calls[k].kind \in EntryKinds
         /\ pc[r] \in EntrySteps =>
              /\ idx[r] \in 1..Len(cfg.errors)
              /\ \A k \in 1..Len(calls) : calls[k].at <= idx[r]
              /\ pc[r] # "s_updateDiscussion" =>
                   \A k \in 1..Len(calls) : calls[k].at < idx[r]
    /\ op[r] = "clear" =>
         /\ \A k \in 1..Len(calls) :
              calls[k].kind = IF k = 1 THEN "repositoryInfo"
                              ELSE IF k = 2 THEN "listDiscussions"
                              ELSE "deleteDiscussion"
         /\ \A k \in 1..(Len(calls) - 1) : calls[k].ok
         /\ \A k \in 3..Len(calls) : calls[k].num = Listed(r)[k - 2]
         /\ pc[r] = "c_deleteDiscussion" =>
              /\ Len(calls) >= 2
              /\ Head(todo[r]) = Listed(r)[Len(calls) - 1]

\* a sync() has fetched and updated the discussion of entry 1 and awaits the
\* create for entry 2
C22_Witness ==
  \E r \in Runs :
    /\ op[r] = "sync" /\ pc[r] = "s_createDiscussion" /\ idx[r] = 2
    /\ Len(log[r]) = 3
    /\ log[r][2].kind = "getDiscussion" /\ log[r][2].at = 1
    /\ log[r][3].kind = "updateDiscussion" /\ log[r][3].at = 1

Max(a, b) == IF a > b THEN a ELSE b

\* text is the object literal of definition e: its four fields in order, then
\* the link when e has one, with e's values
Serializes(text, e) ==
  /\ text.fields = IF Truthy(e._discussion_link)
                   THEN Append(FieldOrder, "_discussion_link") ELSE FieldOrder
  /\ text.error_code = e.error_code
  /\ text.app_message = e.app_message
  /\ text.post_title = e.post_title
  /\ text.post_body = e.post_body
  /\ Truthy(e._discussion_link) => text._discussion_link = e._discussion_link

\* C23: after a writeback that saved m definitions onto an artifact whose
\* errors array had f elements, the array has max(m, f) elements: element i is
\* the object literal of definition i for i <= m, the element it was for
\* m < i <= f, and the artifact is otherwise what it was.
C23_WritebackKeepsTheRest ==
  \A r \in Runs : WroteBack(r) =>
    LET before == snap[r].disk
        m == Len(cfg.errors)
        f == Len(before.elements)
    IN /\ Len(disk.elements) = Max(m, f)
       /\ \A i \in 1..m : Serializes(disk.elements[i], cfg.errors[i])
       /\ \A i \in (m + 1)..f : disk.elements[i] = before.elements[i]
       /\ DOMAIN disk = DOMAIN before
       /\ \A p \in (DOMAIN disk) \ {"elements"} : disk[p] = before[p]

\* a sync() that created a discussion wrote its definitions back onto an
\* artifact with one element more, which is still there
C23_Witness ==
  \E r \in Runs :
    /\ op[r] = "sync" /\ WroteBack(r)
    /\ Len(snap[r].disk.elements) = Len(cfg.errors) + 1
    /\ Len(disk.elements) = Len(cfg.errors) + 1
    /\ disk.elements[1] # snap[r].disk.elements[1]

\* definitions e and f differ at most in their link
SameButLink(e, f) ==
  /\ e.error_code = f.error_code
  /\ e.app_message = f.app_message
  /\ e.post_title = f.post_title
  /\ e.post_body = f.post_body

\* C24: a step of a run that changes the config in memory keeps its entries,
\* their order and every field but the link, and the config's other
\* properties.  A step of sync() changes a link only from none (undefined or
\* "") to the URL of the discussion the step created; a link is lost only in a
\* step of clear(), when every deletion of the run has succeeded.  Between
\* runs the config changes only when a new client is made from the artifact.
\* (The caller awaits each run; C19 is about runs that interleave, where the
\* later create replaces the link the earlier one attached.)
C24_SyncOnlyAttachesLinks ==
  [][ cfg' # cfg =>
        IF \A r \in Runs : Idle(r)
        THEN cfg' = ParseArtifact(disk)
        ELSE /\ DOMAIN cfg' = DOMAIN cfg
             /\ \A p \in (DOMAIN cfg) \ {"errors"} : cfg'[p] = cfg[p]
             /\ Len(cfg'.errors) = Len(cfg.errors)
             /\ \A i \in 1..Len(cfg.errors) :
                  LET old == cfg.errors[i]._discussion_link
                      new == cfg'.errors[i]._discussion_link
                  IN /\ SameButLink(cfg.errors[i], cfg'.errors[i])
                     /\ \A r \in Runs : (op[r] = "sync" /\ new # old) =>
                          /\ ~Truthy(old)
                          /\ i = idx[r]
                          /\ new.kind = "url"
                          /\ Last(new.path) = Len(discussions')
                          /\ Len(discussions') = Len(discussions) + 1
                     /\ (Truthy(old) /\ new # old) =>
                          /\ new = NoLink
                          /\ \E r \in Runs : AllDeleted(r)' ]_vars

\* a sync() returned that attached a link to entry 2 and kept that of entry 1
C24_Witness ==
  \E r \in Runs :
    /\ SyncReturned(r)
    /\ Len(cfg.errors) >= 2
    /\ Truthy(LinkAtStart(r, 1))
    /\ cfg.errors[1]._discussion_link = LinkAtStart(r, 1)
    /\ ~Truthy(LinkAtStart(r, 2))
    /\ Truthy(cfg.errors[2]._discussion_link)

\* C25: the definition print() passes to the printer is the handle's: the
\* fields get(code) returned, the link among them, whatever sync() or clear()
\* did to the config between the get and the print.
C25_PrintReportsHandleLink ==
  (printed.called /\ handle.status = "ok") =>
    \A k \in 1..Len(printed.invocations) :
      /\ printed.invocations[k].error = handle.error
      /\ printed.invocations[k].error._discussion_link
           = handle.error._discussion_link

\* what holds of the code: print() passes the handle's styled message with the
\* other fields, the link among them, of the definition as it is at the print
\* (printed.def)
C25_PrintReportsLiveLink ==
  (printed.called /\ handle.status = "ok") =>
    \A k \in 1..Len(printed.invocations) :
      /\ printed.invocations[k].error.app_message = handle.error.app_message
      /\ SameButLink([printed.invocations[k].error EXCEPT !.app_message = <<>>],
                     [printed.def EXCEPT !.app_message = <<>>])
      /\ printed.invocations[k].error._discussion_link
           = printed.def._discussion_link

\* run r is a sync() that follows, on the same client, a sync() that returned
\* without error
SyncAfterSync(r) ==
  op[r] = "sync" /\ prior.op = "sync" /\ prior.pc = "done"

FileLink(file, i) == ParseElement(file.elements[i])._discussion_link

\* the indices the config in memory and the artifact both have
Shared(c, file) == 1..Min(Len(c.errors), Len(file.elements))

\* every element of the artifact has the link of the entry of its index
LinksEqual(c, file) ==
  \A i \in Shared(c, file) : FileLink(file, i) = c.errors[i]._discussion_link

\* the same, where the empty string and undefined both are no link
LinksAlike(c, file) ==
  \A i \in Shared(c, file) :
    IF Truthy(c.errors[i]._discussion_link)
    THEN FileLink(file, i) = c.errors[i]._discussion_link
    ELSE ~Truthy(FileLink(file, i))

RunReturned(r) == op[r] \in {"sync", "clear"} /\ pc[r] = "done"

\* C27: when the links of the artifact equal those of the config in memory,
\* entry by entry, before a sync() or clear(), they do so when the run has
\* returned without error.
C27_LinksStayEqual ==
  \A r \in Runs :
    (RunReturned(r) /\ LinksEqual(snap[r].cfg, snap[r].disk)) => LinksEqual(cfg, disk)

\* C27, amended: the same with "" and undefined taken as one (writeback leaves
\* the link field of an entry whose link is "" out); besides, the artifact
\* has the link of every discussion the run created, and no link at all in
\* the elements of the entries once clear() stripped one.
C27_LinksStayAlike ==
  \A r \in Runs :
    (RunReturned(r) /\ LinksAlike(snap[r].cfg, snap[r].disk)) =>
      /\ LinksAlike(cfg, disk)
      /\ \A k \in Calls(r, "createDiscussion") :
           /\ log[r][k].at <= Len(disk.elements)
           /\ FileLink(disk, log[r][k].at) = DiscussionUrl(log[r][k].num)
      /\ (op[r] = "clear" /\ cfg # snap[r].cfg) =>
           \A i \in Shared(cfg, disk) : FileLink(disk, i) = NoLink

\* a clear() returned that stripped the link of entry 2 and wrote back; entry
\* 1 has the link "" in memory, and its element has no link field any more
C27_Witness ==
  \E r \in Runs :
    /\ op[r] = "clear" /\ pc[r] = "done" /\ WroteBack(r)
    /\ Len(cfg.errors) >= 2
    /\ LinksEqual(snap[r].cfg, snap[r].disk)
    /\ Truthy(LinkAtStart(r, 2))
    /\ cfg.errors[1]._discussion_link = EmptyLink
    /\ FileLink(snap[r].disk, 1) = EmptyLink
    /\ FileLink(disk, 1) = NoLink

\* the entries whose link is the URL of a discussion that ds has, deleted
DeadLinked(errors, ds) ==
  {i \in 1..Len(errors) :
     LET link == errors[i]._discussion_link IN
     /\ link.kind = "url"
     /\ Last(link.path) \in 1..Len(ds)
     /\ ~ds[Last(link.path)].live}

Least(S) == CHOOSE n \in S : \A m \in S : n <= m

\* run r is a sync() that follows, on the same client, a clear() that threw
\* on a deletion
SyncAfterFailedClear(r) ==
  op[r] = "sync"
  /\ prior = [op |-> "clear", pc |-> "failed", deleting |-> TRUE]

\* C28: a clear() that threw on a deletion has left the config in memory and
\* the artifact as they were, links to the discussions it deleted included.
\* The sync() that follows does not return: it issues no call for an entry
\* past the first, d, whose link is that of a deleted discussion, and for d
\* the lookup alone; once that lookup has answered, the run has thrown
\* 'Discussion #n not found' for the number n of the link.  The deleted
\* discussion stays deleted and nothing was created for d.
C28_SyncAfterAbortedClearNotFound ==
  \A r \in Runs :
    /\ ( /\ op[r] = "clear" /\ pc[r] = "failed"
         /\ log[r] # <<>> /\ Last(log[r]).kind = "deleteDiscussion" )
       => cfg = snap[r].cfg /\ disk = snap[r].disk
    /\ (SyncAfterFailedClear(r) /\ DeadLinked(snap[r].cfg.errors, snap[r].discussions) # {})
       => LET d == Least(DeadLinked(snap[r].cfg.errors, snap[r].discussions))
              n == Last(LinkAtStart(r, d).path)
          IN /\ pc[r] \notin {"done", "s_writeback"}
             /\ idx[r] <= d
             /\ \A k \in 1..Len(log[r]) :
                  /\ log[r][k].at <= d
                  /\ log[r][k].at = d =>
                       /\ log[r][k].kind = "getDiscussion" /\ log[r][k].num = n
                       /\ k = Len(log[r])
                       /\ log[r][k].ok =>
                            /\ pc[r] = "failed"
                            /\ err[r] = Failure("DiscussionNotFound", n)
             /\ ~discussions[n].live
             /\ cfg.errors[d]._discussion_link = LinkAtStart(r, d)
             /\ disk = snap[r].disk

\* after a clear() that deleted discussion 1 and threw on discussion 2, a
\* sync() threw 'Discussion #1 not found' at entry 1; entry 2 exists and no
\* call was issued for it
C28_Witness ==
  \E r \in Runs :
    /\ SyncAfterFailedClear(r) /\ pc[r] = "failed"
    /\ Len(discussions) >= 2
    /\ ~discussions[1].live /\ discussions[2].live
    /\ Len(cfg.errors) >= 2
    /\ cfg.errors[1]._discussion_link = DiscussionUrl(1)
    /\ ParseArtifact(disk).errors[1]._discussion_link = DiscussionUrl(1)
    /\ err[r] = Failure("DiscussionNotFound", 1)
    /\ Last(log[r]).kind = "getDiscussion" /\ Last(log[r]).at = 1

====
